---- MODULE Spec2Model ----
(***************************************************************************)
(* A model of the terrier SQL parser front-end:                            *)
(*   - PostgresParser's decoding helpers (postgresparser.h),               *)
(*   - the ParseResult ownership arena (postgresparser.h),                 *)
(*   - FunctionExpression (function_expression.h),                         *)
(*   - SelectStatement / TableRef / JoinDefinition (de)serialization and   *)
(*     copy (select_statement.cpp, table_ref.cpp).                         *)
(* Strings are sequences of ASCII codes, so that comparison and case       *)
(* folding are computed character by character.                            *)
(***************************************************************************)
EXTENDS Integers, Sequences, FiniteSets, TLC

VARIABLES
  dec,                 \* the last call of a PostgresParser decoding helper: [fn, arg, ret]
  statements_,         \* ParseResult::statements_: the owned statements (node ids)
  expressions_,        \* ParseResult::expressions_: the owned expressions (node ids)
  callerStatements,    \* the vector the caller built from TakeStatementsOwnership()
  callerExpressions,   \* the vector the caller built from TakeExpressionsOwnership()
  arenaRet,            \* the last ParseResult call and what it returned
  addedStatements,     \* history: the statements handed to AddStatement, in call order
  addedExpressions,    \* history: the expressions handed to AddExpression, in call order
  takeCalls,           \* history: which Take...Ownership members were called
  eheap,               \* the expression objects: address -> FunctionExpression fields
  eroots,              \* the addresses of the expressions the caller holds
  eret,                \* the last FunctionExpression call and what it returned
  heap,                \* statement-level objects: address -> fields
  freed,               \* addresses of objects whose owner has been destroyed
  root,                \* the address of the node under test
  sret                 \* the last statement-level call and what it returned

decVars == <<dec>>
arenaVars == <<statements_, expressions_, callerStatements, callerExpressions,
               arenaRet, addedStatements, addedExpressions, takeCalls>>

exprVars == <<eheap, eroots, eret>>
stmtVars == <<heap, freed, root, sret>>

vars == <<decVars, arenaVars, exprVars, stmtVars>>

(***************************************************************************)
(* Strings                                                                 *)
(***************************************************************************)
Str_min == <<109, 105, 110>>
Str_max == <<109, 97, 120>>
Str_count == <<99, 111, 117, 110, 116>>
Str_avg == <<97, 118, 103>>
Str_sum == <<115, 117, 109>>
Str_upper == <<117, 112, 112, 101, 114>>
Str_substring == <<115, 117, 98, 115, 116, 114, 105, 110, 103>>
Str_mi == <<109, 105>>
Str_sums == <<115, 117, 109, 115>>

\* ::tolower / ::toupper in the C locale, on one character code
ToLowerChar(c) == IF c >= 65 /\ c <= 90 THEN c + 32 ELSE c
ToUpperChar(c) == IF c >= 97 /\ c <= 122 THEN c - 32 ELSE c
LowerCased(s) == [i \in 1..Len(s) |-> ToLowerChar(s[i])]

\* every spelling of word w that differs from it only in letter case
CaseVariants(w) ==
  { [i \in 1..Len(w) |-> IF i \in S THEN ToUpperChar(w[i]) ELSE w[i]] :
      S \in SUBSET (1..Len(w)) }

(***************************************************************************)
(* PostgresParser decoding helpers                                         *)
(***************************************************************************)
\* the character codes of the switch labels
Ch_a == 97
Ch_r == 114
Ch_c == 99
Ch_n == 110
Ch_d == 100
Ch_f == 102
Ch_p == 112
Ch_s == 115

\* the largest character code drawn as an input (codes 0..MaxChar)
MaxChar == 127

CharToActionTypeDefaultRestrict(type) ==
  CASE type = Ch_a -> "NOACTION"
    [] type = Ch_r -> "RESTRICT_"
    [] type = Ch_c -> "CASCADE"
    [] type = Ch_n -> "SETNULL"
    [] type = Ch_d -> "SETDEFAULT"
    [] OTHER -> "RESTRICT_"

CharToActionType(type) ==
  CASE type = Ch_a -> "NOACTION"
    [] type = Ch_r -> "RESTRICT_"
    [] type = Ch_c -> "CASCADE"
    [] type = Ch_n -> "SETNULL"
    [] type = Ch_d -> "SETDEFAULT"
    [] OTHER -> "NOACTION"

CharToMatchType(type) ==
  CASE type = Ch_f -> "FULL"
    [] type = Ch_p -> "PARTIAL"
    [] type = Ch_s -> "SIMPLE"
    [] OTHER -> "SIMPLE"

\* std::string operator== against a literal: same length, same characters
IsAggregateFunction(fun_name) ==
  \/ fun_name = Str_min
  \/ fun_name = Str_max
  \/ fun_name = Str_count
  \/ fun_name = Str_avg
  \/ fun_name = Str_sum

\* the function names handed to IsAggregateFunction
FunNameInputs ==
  UNION { CaseVariants(w) :
            w \in {Str_min, Str_max, Str_count, Str_avg, Str_sum,
                   Str_upper, Str_substring, Str_mi, Str_sums, <<>>} }

DecInit == dec = [fn |-> "none", arg |-> <<>>, ret |-> "none"]

CallCharToActionType ==
  /\ \E c \in 0..MaxChar :
       dec' = [fn |-> "CharToActionType", arg |-> <<c>>, ret |-> CharToActionType(c)]
  /\ UNCHANGED <<arenaVars, exprVars, stmtVars>>

CallCharToMatchType ==
  /\ \E c \in 0..MaxChar :
       dec' = [fn |-> "CharToMatchType", arg |-> <<c>>, ret |-> CharToMatchType(c)]
  /\ UNCHANGED <<arenaVars, exprVars, stmtVars>>

CallIsAggregateFunction ==
  /\ \E s \in FunNameInputs :
       dec' = [fn |-> "IsAggregateFunction", arg |-> s,
               ret |-> IF IsAggregateFunction(s) THEN "true" ELSE "false"]
  /\ UNCHANGED <<arenaVars, exprVars, stmtVars>>

(***************************************************************************)
(* ParseResult: the ownership arena                                        *)
(*                                                                         *)
(* A node is named by its address (a positive number); a unique_ptr and a  *)
(* ManagedPointer to it both hold that address, the first owning it.       *)
(* The caller makes a fresh node for each Add call.                        *)
(***************************************************************************)
\* the number of nodes the caller makes
MaxNodes == 3

\* the return value of a call: nothing, one handle, a list of handles, or
\* a reference to one of the ParseResult's own vectors
RetVoid == [kind |-> "void", h |-> <<>>]
RetHandle(a) == [kind |-> "handle", h |-> <<a>>]
RetHandles(as) == [kind |-> "handles", h |-> as]
RetRef(member) == [kind |-> "ref", h |-> <<>>, member |-> member]

NodesMade == Len(addedStatements) + Len(addedExpressions)

\* emplace_back at the wrong end
EmplaceFront(vec, x) == <<x>> \o vec

\* std::vector::emplace_back
EmplaceBack(vec, x) == Append(vec, x)

ArenaInit ==
  /\ statements_ = <<>>
  /\ expressions_ = <<>>
  /\ callerStatements = <<>>
  /\ callerExpressions = <<>>
  /\ arenaRet = [op |-> "none", idx |-> 0, ret |-> RetVoid]
  /\ addedStatements = <<>>
  /\ addedExpressions = <<>>
  /\ takeCalls = {}

AddStatement ==
  /\ NodesMade < MaxNodes
  /\ LET statement == NodesMade + 1 IN
     /\ statements_' = EmplaceBack(statements_, statement)
     /\ addedStatements' = Append(addedStatements, statement)
  /\ arenaRet' = [op |-> "AddStatement", idx |-> 0, ret |-> RetVoid]
  /\ UNCHANGED <<expressions_, callerStatements, callerExpressions,
                 addedExpressions, takeCalls>>
  /\ UNCHANGED <<decVars, exprVars, stmtVars>>

AddExpression ==
  /\ NodesMade < MaxNodes
  /\ LET expression == NodesMade + 1 IN
     /\ expressions_' = EmplaceBack(expressions_, expression)
     /\ addedExpressions' = Append(addedExpressions, expression)
  /\ arenaRet' = [op |-> "AddExpression", idx |-> 0, ret |-> RetVoid]
  /\ UNCHANGED <<statements_, callerStatements, callerExpressions,
                 addedStatements, takeCalls>>
  /\ UNCHANGED <<decVars, exprVars, stmtVars>>

GetStatements ==
  /\ arenaRet' = [op |-> "GetStatements", idx |-> 0,
                  ret |-> RetHandles([i \in 1..Len(statements_) |-> statements_[i]])]
  /\ UNCHANGED <<statements_, expressions_, callerStatements, callerExpressions,
                 addedStatements, addedExpressions, takeCalls>>
  /\ UNCHANGED <<decVars, exprVars, stmtVars>>

GetExpressions ==
  /\ arenaRet' = [op |-> "GetExpressions", idx |-> 0,
                  ret |-> RetHandles([i \in 1..Len(expressions_) |-> expressions_[i]])]
  /\ UNCHANGED <<statements_, expressions_, callerStatements, callerExpressions,
                 addedStatements, addedExpressions, takeCalls>>
  /\ UNCHANGED <<decVars, exprVars, stmtVars>>

\* vec[idx] of std::vector (idx counts from 0): reading past the end is
\* undefined behaviour, and may yield a null or any node's address
VectorAt(vec, idx) ==
  IF idx < Len(vec) THEN {vec[idx + 1]} ELSE 0..NodesMade

GetStatement ==
  /\ \E idx \in 0..MaxNodes : \E a \in VectorAt(statements_, idx) :
       arenaRet' = [op |-> "GetStatement", idx |-> idx, ret |-> RetHandle(a)]
  /\ UNCHANGED <<statements_, expressions_, callerStatements, callerExpressions,
                 addedStatements, addedExpressions, takeCalls>>
  /\ UNCHANGED <<decVars, exprVars, stmtVars>>

GetExpression ==
  /\ \E idx \in 0..MaxNodes : \E a \in VectorAt(expressions_, idx) :
       arenaRet' = [op |-> "GetExpression", idx |-> idx, ret |-> RetHandle(a)]
  /\ UNCHANGED <<statements_, expressions_, callerStatements, callerExpressions,
                 addedStatements, addedExpressions, takeCalls>>
  /\ UNCHANGED <<decVars, exprVars, stmtVars>>

\* What the caller does with the std::vector<...> && a Take...Ownership call
\* returns: move-construct a vector of its own from it, or only bind (or drop)
\* the reference.  std::move is a cast: the call itself moves nothing.
TakeUses == {"move_construct", "bind_reference"}

TakeStatementsOwnership ==
  /\ \E use \in TakeUses :
       /\ arenaRet' = [op |-> "TakeStatementsOwnership", idx |-> 0,
                       ret |-> RetRef("statements_"), use |-> use,
                       before |-> <<statements_, expressions_>>]
       /\ IF use = "move_construct"
            THEN /\ callerStatements' = statements_
                 /\ statements_' = <<>>
            ELSE UNCHANGED <<callerStatements, statements_>>
  /\ takeCalls' = takeCalls \cup {"statements"}
  /\ UNCHANGED <<expressions_, callerExpressions, addedStatements, addedExpressions>>
  /\ UNCHANGED <<decVars, exprVars, stmtVars>>

TakeExpressionsOwnership ==
  /\ \E use \in TakeUses :
       /\ arenaRet' = [op |-> "TakeExpressionsOwnership", idx |-> 0,
                       ret |-> RetRef("expressions_"), use |-> use,
                       before |-> <<statements_, expressions_>>]
       /\ IF use = "move_construct"
            THEN /\ callerExpressions' = expressions_
                 /\ expressions_' = <<>>
            ELSE UNCHANGED <<callerExpressions, expressions_>>
  /\ takeCalls' = takeCalls \cup {"expressions"}
  /\ UNCHANGED <<statements_, callerStatements, addedStatements, addedExpressions>>
  /\ UNCHANGED <<decVars, exprVars, stmtVars>>

(***************************************************************************)
(* JSON documents (nlohmann::json)                                         *)
(*                                                                         *)
(* A value is null, a string, an enumerator, a boolean, an array or an     *)
(* object; an object's fields are a function from its keys.                *)
(***************************************************************************)
JNull == [t |-> "null"]
JStr(s) == [t |-> "str", s |-> s]
JEnum(e) == [t |-> "enum", e |-> e]
JBool(b) == [t |-> "bool", b |-> b]
JArr(a) == [t |-> "arr", a |-> a]
JObj(f) == [t |-> "obj", f |-> f]
JEmptyObj == [t |-> "obj", f |-> <<>>]

\* j[key] = value
JSet(j, key, value) == JObj((key :> value) @@ j.f)
\* whether j.at(key) finds the key; it throws otherwise
JHas(j, key) == j.t = "obj" /\ key \in DOMAIN j.f
JAt(j, key) == j.f[key]
\* j without the key
JDrop(j, key) == JObj([k \in (DOMAIN j.f) \ {key} |-> j.f[k]])
JKeys(j) == IF j.t = "obj" THEN DOMAIN j.f ELSE {}

(***************************************************************************)
(* HashUtil (common/hash_util.h): hashes are kept to HashModulus values    *)
(***************************************************************************)
HashModulus == 65536

RECURSIVE HashBytes(_, _)
HashBytes(seed, bytes) ==
  IF bytes = <<>> THEN seed
  ELSE HashBytes((seed * 31 + Head(bytes) + 7) % HashModulus, Tail(bytes))

HashString(str) == HashBytes(Len(str), str)
HashEnum(e) ==
  CASE e = "FUNCTION" -> 11
    [] e = "INVALID" -> 0
    [] e = "INTEGER" -> 4
    [] e = "BOOLEAN" -> 1
    [] OTHER -> 13
CombineHashes(l, r) == HashBytes(17, <<l % 256, l \div 256, r % 256, r \div 256>>)

(***************************************************************************)
(* FunctionExpression                                                      *)
(*                                                                         *)
(* eheap[a] holds the fields of the expression at address a; children_     *)
(* holds the addresses of the children.                                    *)
(***************************************************************************)
\* the state of a default-constructed FunctionExpression
FunctionExpression_Default ==
  [expression_type |-> "INVALID", return_value_type |-> "INVALID",
   children_ |-> <<>>, expression_name_ |-> <<>>, func_name_ |-> <<>>]

\* FunctionExpression(func_name, return_value_type, children)
FunctionExpression_New(func_name, return_value_type, children) ==
  [expression_type |-> "FUNCTION", return_value_type |-> return_value_type,
   children_ |-> children, expression_name_ |-> <<>>, func_name_ |-> func_name]

\* FunctionExpression(const FunctionExpression &other, children): the base
\* fields and the name are copied from other, the children are the given ones
FunctionExpression_CopyCtor(other, children) ==
  [expression_type |-> other.expression_type,
   return_value_type |-> other.return_value_type,
   children_ |-> children,
   expression_name_ |-> other.expression_name_,
   func_name_ |-> other.func_name_]

\* new T(...): the object is placed at the next free address
New(h, obj) == [h |-> Append(h, obj), r |-> Len(h) + 1]

CopyWithChildren(h, this, children) ==
  New(h, FunctionExpression_CopyCtor(h[this], children))

\* a copy that keeps the original's children
FunctionExpression_CopyShallow(h, this) ==
  CopyWithChildren(h, this, h[this].children_)

RECURSIVE FunctionExpression_Copy(_, _)
RECURSIVE CopyChildren(_, _, _, _)
\* the loop of Copy: children.emplace_back(child->Copy()), from child i on
CopyChildren(h, cs, i, children) ==
  IF i > Len(cs) THEN [h |-> h, children |-> children]
  ELSE LET c == FunctionExpression_Copy(h, cs[i])
       IN CopyChildren(c.h, cs, i + 1, Append(children, c.r))

FunctionExpression_Copy(h, this) ==
  LET loop == CopyChildren(h, h[this].children_, 1, <<>>)
  IN CopyWithChildren(loop.h, this, loop.children)

\* the addresses of the expression at a and of all its descendants
RECURSIVE ExprNodes(_, _)
ExprNodes(h, a) ==
  {a} \cup UNION { ExprNodes(h, h[a].children_[i]) : i \in 1..Len(h[a].children_) }

RECURSIVE FunctionExpression_Hash(_, _)
RECURSIVE HashChildren(_, _, _, _)
HashChildren(h, cs, i, hash) ==
  IF i > Len(cs) THEN hash
  ELSE HashChildren(h, cs, i + 1, CombineHashes(hash, FunctionExpression_Hash(h, cs[i])))

\* AbstractExpression::Hash: the expression type, the children in order,
\* the return value type
AbstractExpression_Hash(h, this) ==
  CombineHashes(HashChildren(h, h[this].children_, 1, HashEnum(h[this].expression_type)),
                HashEnum(h[this].return_value_type))

\* a hash that also reads the cached display name
FunctionExpression_HashWithName(h, this) ==
  CombineHashes(CombineHashes(AbstractExpression_Hash(h, this), HashString(h[this].func_name_)),
                HashString(h[this].expression_name_))

FunctionExpression_Hash(h, this) ==
  LET hash == AbstractExpression_Hash(h, this)
  IN CombineHashes(hash, HashString(h[this].func_name_))

RECURSIVE FunctionExpression_Eq(_, _, _)
\* AbstractExpression::operator==: type, return type, and the children
\* pairwise in order
AbstractExpression_Eq(h, this, rhs) ==
  /\ h[this].expression_type = h[rhs].expression_type
  /\ h[this].return_value_type = h[rhs].return_value_type
  /\ Len(h[this].children_) = Len(h[rhs].children_)
  /\ \A i \in 1..Len(h[this].children_) :
       FunctionExpression_Eq(h, h[this].children_[i], h[rhs].children_[i])

GetFuncName(h, this) == h[this].func_name_


FunctionExpression_Eq(h, this, rhs) ==
  IF ~AbstractExpression_Eq(h, this, rhs) THEN FALSE
  ELSE GetFuncName(h, this) = GetFuncName(h, rhs)

\* DeriveExpressionName: func_name(child1,child2,...), the children derived
\* first; returns the heap with the names set
RECURSIVE DeriveExpressionName(_, _)
RECURSIVE DeriveLoop(_, _, _, _)
\* the loop over children_ from child i on; name is the text so far
DeriveLoop(h, this, i, name) ==
  IF i > Len(h[this].children_) THEN [h |-> h, name |-> name]
  ELSE LET child == h[this].children_[i]
           sep == IF i = 1 THEN <<>> ELSE <<44>>
           h2 == DeriveExpressionName(h, child)
       IN DeriveLoop(h2, this, i + 1, name \o sep \o h2[child].expression_name_)

DeriveExpressionName(h, this) ==
  LET loop == DeriveLoop(h, this, 1, GetFuncName(h, this) \o <<40>>)
  IN [loop.h EXCEPT ![this].expression_name_ = loop.name \o <<41>>]

RECURSIVE FunctionExpression_ToJson(_, _)
\* AbstractExpression::ToJson: the base fields, the children serialized inline
AbstractExpression_ToJson(h, this) ==
  JObj([expression_type |-> JEnum(h[this].expression_type),
        return_value_type |-> JEnum(h[this].return_value_type),
        children |-> JArr([i \in 1..Len(h[this].children_) |->
                             FunctionExpression_ToJson(h, h[this].children_[i])])])

\* a ToJson that forgets the function name
FunctionExpression_ToJsonBaseOnly(h, this) ==
  AbstractExpression_ToJson(h, this)

FunctionExpression_ToJson(h, this) ==
  LET j == AbstractExpression_ToJson(h, this)
  IN JSet(j, "func_name", JStr(h[this].func_name_))

\* j.at(key).get<T>() succeeds: the key is there and holds a value of shape t
JGets(j, key, t) == JHas(j, key) /\ JAt(j, key).t = t

RECURSIVE FunctionExpression_FromJson(_, _, _)
\* DeserializeExpression: a default-constructed expression is made and
\* filled from the document; [h, r, err]
DeserializeExpr(h, j) ==
  LET n == New(h, FunctionExpression_Default)
      f == FunctionExpression_FromJson(n.h, n.r, j)
  IN [h |-> f.h, r |-> n.r, err |-> f.err]

RECURSIVE FromJsonChildren(_, _, _, _)
\* the loop over the children's documents, from document i on
FromJsonChildren(h, this, cjs, i) ==
  IF i > Len(cjs) THEN [h |-> h, err |-> FALSE]
  ELSE LET d == DeserializeExpr(h, cjs[i])
       IN IF d.err THEN [h |-> d.h, err |-> TRUE]
          ELSE FromJsonChildren([d.h EXCEPT ![this].children_ = Append(@, d.r)],
                                this, cjs, i + 1)

\* AbstractExpression::FromJson: reads expression_type, return_value_type and
\* children, each with a mandatory lookup; [h, err], h holding what was
\* assigned before an error
AbstractExpression_FromJson(h, this, j) ==
  IF ~JGets(j, "expression_type", "enum") THEN [h |-> h, err |-> TRUE]
  ELSE LET h1 == [h EXCEPT ![this].expression_type = JAt(j, "expression_type").e] IN
  IF ~JGets(j, "return_value_type", "enum") THEN [h |-> h1, err |-> TRUE]
  ELSE LET h2 == [h1 EXCEPT ![this].return_value_type = JAt(j, "return_value_type").e] IN
  IF ~JGets(j, "children", "arr") THEN [h |-> h2, err |-> TRUE]
  ELSE FromJsonChildren([h2 EXCEPT ![this].children_ = <<>>], this, JAt(j, "children").a, 1)

FunctionExpression_FromJson(h, this, j) ==
  LET base == AbstractExpression_FromJson(h, this, j) IN
  IF base.err THEN base
  ELSE IF ~JGets(j, "func_name", "str") THEN [h |-> base.h, err |-> TRUE]
  ELSE [h |-> [base.h EXCEPT ![this].func_name_ = JAt(j, "func_name").s], err |-> FALSE]

(***************************************************************************)
(* The expressions the FunctionExpression operations are applied to        *)
(***************************************************************************)
\* the most children an input expression has
MaxChildren == 2
\* the most expressions the caller holds at once
MaxRoots == 2

ExprFuncNames == {Str_sum, Str_upper}
ExprTypes == {"INTEGER", "BOOLEAN"}

SeqsUpTo(S, n) == UNION { [1..k -> S] : k \in 0..n }

ExprLeaves ==
  { [func_name |-> n, return_value_type |-> t, children |-> <<>>] :
      n \in ExprFuncNames, t \in ExprTypes }

ExprShapes ==
  { [func_name |-> n, return_value_type |-> t, children |-> cs] :
      n \in ExprFuncNames, t \in ExprTypes, cs \in SeqsUpTo(ExprLeaves, MaxChildren) }

\* the caller builds the children, then the expression over them; [h, r]
RECURSIVE BuildExpr(_, _)
RECURSIVE BuildChildren(_, _, _, _)
BuildChildren(h, shapes, i, children) ==
  IF i > Len(shapes) THEN [h |-> h, children |-> children]
  ELSE LET c == BuildExpr(h, shapes[i])
       IN BuildChildren(c.h, shapes, i + 1, Append(children, c.r))

BuildExpr(h, shape) ==
  LET cs == BuildChildren(h, shape.children, 1, <<>>)
  IN New(cs.h, FunctionExpression_New(shape.func_name, shape.return_value_type, cs.children))

ExprInit ==
  \E shape \in ExprShapes :
    LET b == BuildExpr(<<>>, shape) IN
    /\ eheap = b.h
    /\ eroots = {b.r}
    /\ eret = [op |-> "none"]

ExprCopy ==
  /\ \E a \in eroots :
       /\ Cardinality(eroots) < MaxRoots
       /\ LET c == FunctionExpression_Copy(eheap, a) IN
          /\ eheap' = c.h
          /\ eroots' = eroots \cup {c.r}
          /\ eret' = [op |-> "Copy", this |-> a, r |-> c.r, before |-> eheap]
  /\ UNCHANGED <<decVars, arenaVars, stmtVars>>

ExprDeriveExpressionName ==
  /\ \E a \in eroots :
       /\ eheap' = DeriveExpressionName(eheap, a)
       /\ eret' = [op |-> "DeriveExpressionName", this |-> a]
  /\ UNCHANGED eroots
  /\ UNCHANGED <<decVars, arenaVars, stmtVars>>

ExprToJson ==
  /\ \E a \in eroots :
       eret' = [op |-> "ToJson", this |-> a, j |-> FunctionExpression_ToJson(eheap, a)]
  /\ UNCHANGED <<eheap, eroots>>
  /\ UNCHANGED <<decVars, arenaVars, stmtVars>>

\* a FunctionExpression is default-constructed and FromJson is called on it
\* with the document ToJson gave, or with that document less one field; an
\* expression FromJson refused is discarded
ExprFromJson ==
  /\ eret.op = "ToJson"
  /\ \E drop \in {"none"} \cup JKeys(eret.j) :
       LET j == IF drop = "none" THEN eret.j ELSE JDrop(eret.j, drop)
           n == New(eheap, FunctionExpression_Default)
           f == FunctionExpression_FromJson(n.h, n.r, j)
       IN /\ Cardinality(eroots) < MaxRoots
          /\ eheap' = IF f.err THEN eheap ELSE f.h
          /\ eroots' = IF f.err THEN eroots ELSE eroots \cup {n.r}
          /\ eret' = [op |-> "FromJson", this |-> n.r, err |-> f.err,
                      from |-> eret.this, dropped |-> drop, j |-> j]
  /\ UNCHANGED <<decVars, arenaVars, stmtVars>>

(***************************************************************************)
(* SelectStatement, TableRef, JoinDefinition                               *)
(*                                                                         *)
(* heap[a] holds the fields of the object at address a, with its class in  *)
(* kind.  A unique_ptr field holds the address of the object it owns (0    *)
(* for nullptr); a ManagedPointer field holds the address of an expression *)
(* owned elsewhere.  freed is the set of addresses of destroyed objects.   *)
(***************************************************************************)
TableRef_Default ==
  [kind |-> "TableRef", type_ |-> "uninitialized", alias_ |-> <<>>,
   table_info_ |-> 0, select_ |-> 0, list_ |-> <<>>, join_ |-> 0]

JoinDefinition_Default ==
  [kind |-> "JoinDefinition", type_ |-> "uninitialized",
   left_ |-> 0, right_ |-> 0, condition_ |-> 0]

SelectStatement_Default ==
  [kind |-> "SelectStatement", stmt_type_ |-> "uninitialized", select_ |-> <<>>,
   select_distinct_ |-> "uninitialized", from_ |-> 0, where_ |-> 0,
   group_by_ |-> 0, order_by_ |-> 0, limit_ |-> 0, union_select_ |-> 0]

TableInfo_Default == [kind |-> "TableInfo", table_name_ |-> <<>>]
\* GroupByDescription, OrderByDescription, LimitDescription: one field each
Description_Default(kind) == [kind |-> kind, value_ |-> <<>>]

DescriptionKinds == {"GroupByDescription", "OrderByDescription", "LimitDescription"}

DefaultOf(kind) ==
  CASE kind = "TableRef" -> TableRef_Default
    [] kind = "JoinDefinition" -> JoinDefinition_Default
    [] kind = "SelectStatement" -> SelectStatement_Default
    [] kind = "TableInfo" -> TableInfo_Default
    [] OTHER -> Description_Default(kind)

\* the unique_ptr fields of an object, and its vector of unique_ptr
OwnedFields(obj) ==
  CASE obj.kind = "TableRef" -> {"table_info_", "select_", "join_"}
    [] obj.kind = "JoinDefinition" -> {"left_", "right_"}
    [] obj.kind = "SelectStatement" ->
         {"from_", "group_by_", "order_by_", "limit_", "union_select_"}
    [] OTHER -> {}

OwnedChildren(obj) ==
  ({ obj[f] : f \in OwnedFields(obj) } \ {0})
    \cup (IF obj.kind = "TableRef" THEN { obj.list_[i] : i \in 1..Len(obj.list_) } ELSE {})

\* the ManagedPointer fields of an object: the expressions it refers to
HandlesOf(obj) ==
  (CASE obj.kind = "JoinDefinition" -> {obj.condition_}
     [] obj.kind = "SelectStatement" ->
          {obj.where_} \cup { obj.select_[i] : i \in 1..Len(obj.select_) }
     [] OTHER -> {}) \ {0}

\* the object at a and everything it owns, directly or not
RECURSIVE OwnedNodes(_, _)
OwnedNodes(h, a) ==
  {a} \cup UNION { OwnedNodes(h, c) : c \in OwnedChildren(h[a]) }

\* every non-owning expression handle reachable in the tree at a
ReachableHandles(h, a) == UNION { HandlesOf(h[n]) : n \in OwnedNodes(h, a) }

(***************************************************************************)
(* FromJson.  A call works on [h, freed, exprs, err]: the heap, the        *)
(* destroyed objects, the local vector exprs, and whether json threw.      *)
(* After a throw the remaining statements of the function are skipped.     *)
(***************************************************************************)
Fail(st) == [st EXCEPT !.err = TRUE]

Elems(vec) == { vec[i] : i \in 1..Len(vec) }

\* leaving the function: it returns exprs, or, unwinding after a throw,
\* destroys exprs and the expressions it owns
Leave(st) ==
  IF st.err THEN [st EXCEPT !.freed = @ \cup Elems(st.exprs), !.exprs = <<>>] ELSE st

\* the caller drops the vector a callee's FromJson returned: the expressions
\* it owns are destroyed
Discard(st, callee) ==
  [h |-> callee.h, freed |-> callee.freed \cup Elems(callee.exprs),
   exprs |-> st.exprs, err |-> callee.err]

\* DeserializeExpression on an expression's document: the expression is made;
\* [h, result_, non_owned_exprs_, err]
DeserializeExpression(h, j) ==
  IF ~JGets(j, "func_name", "str")
    THEN [h |-> h, result_ |-> 0, non_owned_exprs_ |-> <<>>, err |-> TRUE]
    ELSE [h |-> Append(h, [kind |-> "Expr", func_name_ |-> JAt(j, "func_name").s]),
          result_ |-> Len(h) + 1, non_owned_exprs_ |-> <<>>, err |-> FALSE]

\* TableInfo::FromJson and the descriptions' FromJson: one mandatory field
Leaf_FromJson(h, fr, this, j) ==
  LET key == IF h[this].kind = "TableInfo" THEN "table_name" ELSE "value"
      fld == IF h[this].kind = "TableInfo" THEN "table_name_" ELSE "value_"
  IN IF ~JGets(j, key, "str")
       THEN [h |-> h, freed |-> fr, exprs |-> <<>>, err |-> TRUE]
       ELSE [h |-> [h EXCEPT ![this][fld] = JAt(j, key).s],
             freed |-> fr, exprs |-> <<>>, err |-> FALSE]

RECURSIVE FromJsonOf(_, _, _, _)
RECURSIVE ReadOwned(_, _, _, _, _, _)
RECURSIVE TableRef_ReadList(_, _, _)
RECURSIVE TableRef_FromJson(_, _, _, _)
RECURSIVE JoinDefinition_FromJson(_, _, _, _)
RECURSIVE SelectStatement_FromJson(_, _, _, _)

\* x->FromJson(j) on the object at a, by its class
FromJsonOf(h, fr, a, j) ==
  CASE h[a].kind = "TableRef" -> TableRef_FromJson(h, fr, a, j)
    [] h[a].kind = "JoinDefinition" -> JoinDefinition_FromJson(h, fr, a, j)
    [] h[a].kind = "SelectStatement" -> SelectStatement_FromJson(h, fr, a, j)
    [] OTHER -> Leaf_FromJson(h, fr, a, j)

\* fld = j.at(key).get<T>() for an enumerator, a string or a bool
ReadValue(st, this, j, key, fld, t) ==
  IF st.err THEN st
  ELSE IF ~JGets(j, key, t) THEN Fail(st)
  ELSE [st EXCEPT !.h[this][fld] =
          CASE t = "enum" -> JAt(j, key).e
            [] t = "str" -> JAt(j, key).s
            [] OTHER -> JAt(j, key).b]

\* if (!j.at(key).is_null()) { fld = std::make_unique<T>(); fld->FromJson(j.at(key)); }
\* the vector FromJson returns is dropped
ReadOwned(st, this, j, key, fld, kind) ==
  IF st.err THEN st
  ELSE IF ~JHas(j, key) THEN Fail(st)
  ELSE IF JAt(j, key).t = "null" THEN st
  ELSE LET a == Len(st.h) + 1
           h1 == [Append(st.h, DefaultOf(kind)) EXCEPT ![this][fld] = a]
       IN Discard(st, FromJsonOf(h1, st.freed, a, JAt(j, key)))

\* if (!j.at(key).is_null()) { deserialized = DeserializeExpression(j.at(key));
\*   fld = ManagedPointer(result_); exprs gets result_ and non_owned_exprs_ }
ReadExpression(st, this, j, key, fld) ==
  IF st.err THEN st
  ELSE IF ~JHas(j, key) THEN Fail(st)
  ELSE IF JAt(j, key).t = "null" THEN st
  ELSE LET d == DeserializeExpression(st.h, JAt(j, key))
       IN IF d.err THEN Fail(st)
          ELSE [st EXCEPT !.h = [d.h EXCEPT ![this][fld] = d.result_],
                          !.exprs = Append(@, d.result_) \o d.non_owned_exprs_]

JoinDefinition_FromJson(h, fr, this, j) ==
  LET s0 == [h |-> h, freed |-> fr, exprs |-> <<>>, err |-> FALSE]
      s1 == ReadValue(s0, this, j, "type", "type_", "enum")
      s2 == ReadOwned(s1, this, j, "left", "left_", "TableRef")
      s3 == ReadOwned(s2, this, j, "right", "right_", "TableRef")
      s4 == ReadExpression(s3, this, j, "condition", "condition_")
  IN Leave(s4)

\* the loop over list_jsons, from element i on: a TableRef is made, filled
\* by FromJson (its vector dropped) and moved into list_; if FromJson throws
\* the TableRef, not yet in list_, is destroyed
RECURSIVE TableRef_ReadListLoop(_, _, _, _)
TableRef_ReadListLoop(st, this, list_jsons, i) ==
  IF st.err \/ i > Len(list_jsons) THEN st
  ELSE LET ref == Len(st.h) + 1
           h1 == Append(st.h, TableRef_Default)
           c == Discard(st, TableRef_FromJson(h1, st.freed, ref, list_jsons[i]))
       IN IF c.err THEN [c EXCEPT !.freed = @ \cup OwnedNodes(c.h, ref)]
          ELSE TableRef_ReadListLoop([c EXCEPT !.h[this].list_ = Append(@, ref)],
                                     this, list_jsons, i + 1)

TableRef_ReadList(st, this, j) ==
  IF st.err THEN st
  ELSE IF ~JGets(j, "list", "arr") THEN Fail(st)
  ELSE TableRef_ReadListLoop(st, this, JAt(j, "list").a, 1)

TableRef_FromJson(h, fr, this, j) ==
  LET s0 == [h |-> h, freed |-> fr, exprs |-> <<>>, err |-> FALSE]
      s1 == ReadValue(s0, this, j, "type", "type_", "enum")
      s2 == ReadValue(s1, this, j, "alias", "alias_", "str")
      s3 == ReadOwned(s2, this, j, "table_info", "table_info_", "TableInfo")
      s4 == ReadOwned(s3, this, j, "select", "select_", "SelectStatement")
      s5 == TableRef_ReadList(s4, this, j)
      s6 == ReadOwned(s5, this, j, "join", "join_", "JoinDefinition")
  IN Leave(s6)

\* SQLStatement::FromJson: the statement type; it returns an empty vector
SQLStatement_FromJson(st, this, j) ==
  ReadValue(st, this, j, "stmt_type", "stmt_type_", "enum")

\* the loop over select_expressions, from element i on
RECURSIVE SelectStatement_ReadSelectLoop(_, _, _, _)
SelectStatement_ReadSelectLoop(st, this, select_expressions, i) ==
  IF i > Len(select_expressions) THEN st
  ELSE LET d == DeserializeExpression(st.h, select_expressions[i])
       IN IF d.err THEN Fail(st)
          ELSE SelectStatement_ReadSelectLoop(
                 [st EXCEPT !.h = [d.h EXCEPT ![this].select_ = Append(@, d.result_)],
                            !.exprs = Append(@, d.result_) \o d.non_owned_exprs_],
                 this, select_expressions, i + 1)

SelectStatement_ReadSelect(st, this, j) ==
  IF st.err THEN st
  ELSE IF ~JGets(j, "select", "arr") THEN Fail(st)
  ELSE SelectStatement_ReadSelectLoop(st, this, JAt(j, "select").a, 1)

\* the function ends with "return select;": no variable of that name is
\* declared in it, and exprs, the vector it filled, is taken as what is returned
SelectStatement_FromJson(h, fr, this, j) ==
  LET s0 == [h |-> h, freed |-> fr, exprs |-> <<>>, err |-> FALSE]
      s1 == SQLStatement_FromJson(s0, this, j)
      s2 == SelectStatement_ReadSelect(s1, this, j)
      s3 == ReadValue(s2, this, j, "select_distinct", "select_distinct_", "bool")
      s4 == ReadOwned(s3, this, j, "from", "from_", "TableRef")
      s5 == ReadExpression(s4, this, j, "where", "where_")
      s6 == ReadOwned(s5, this, j, "group_by", "group_by_", "GroupByDescription")
      s7 == ReadOwned(s6, this, j, "order_by", "order_by_", "OrderByDescription")
      s8 == ReadOwned(s7, this, j, "limit", "limit_", "LimitDescription")
      s9 == ReadOwned(s8, this, j, "union_select", "union_select_", "SelectStatement")
  IN Leave(s9)

(***************************************************************************)
(* ToJson                                                                  *)
(***************************************************************************)
\* only type is written: left, right and condition are commented out
JoinDefinition_ToJson(h, this) ==
  JSet(JEmptyObj, "type", JEnum(h[this].type_))

\* only type and alias are written: table_info, select, list and join are
\* commented out
TableRef_ToJson(h, this) ==
  JSet(JSet(JEmptyObj, "type", JEnum(h[this].type_)), "alias", JStr(h[this].alias_))

\* SQLStatement::ToJson: the statement type
SQLStatement_ToJson(h, this) ==
  JSet(JEmptyObj, "stmt_type", JEnum(h[this].stmt_type_))

\* nothing is added to what SQLStatement::ToJson writes: every field of the
\* select is commented out
SelectStatement_ToJson(h, this) ==
  LET j == SQLStatement_ToJson(h, this) IN j

ToJsonOf(h, a) ==
  CASE h[a].kind = "TableRef" -> TableRef_ToJson(h, a)
    [] h[a].kind = "JoinDefinition" -> JoinDefinition_ToJson(h, a)
    [] OTHER -> SelectStatement_ToJson(h, a)

(***************************************************************************)
(* A complete document of a node: one that holds every field FromJson      *)
(* looks up, as a producer that writes all of them would give it.          *)
(***************************************************************************)
RECURSIVE CompleteJson(_, _)
CompleteOrNull(h, a) == IF a = 0 THEN JNull ELSE CompleteJson(h, a)
CompleteJson(h, a) ==
  LET o == h[a] IN
  CASE o.kind = "Expr" -> JObj([func_name |-> JStr(o.func_name_)])
    [] o.kind = "TableInfo" -> JObj([table_name |-> JStr(o.table_name_)])
    [] o.kind \in DescriptionKinds -> JObj([value |-> JStr(o.value_)])
    [] o.kind = "JoinDefinition" ->
         JObj([type |-> JEnum(o.type_),
               left |-> CompleteOrNull(h, o.left_),
               right |-> CompleteOrNull(h, o.right_),
               condition |-> CompleteOrNull(h, o.condition_)])
    [] o.kind = "TableRef" ->
         JObj([type |-> JEnum(o.type_),
               alias |-> JStr(o.alias_),
               table_info |-> CompleteOrNull(h, o.table_info_),
               select |-> CompleteOrNull(h, o.select_),
               list |-> JArr([i \in 1..Len(o.list_) |-> CompleteJson(h, o.list_[i])]),
               join |-> CompleteOrNull(h, o.join_)])
    [] o.kind = "SelectStatement" ->
         JObj([stmt_type |-> JEnum(o.stmt_type_),
               select |-> JArr([i \in 1..Len(o.select_) |-> CompleteJson(h, o.select_[i])]),
               select_distinct |-> JBool(o.select_distinct_),
               from |-> CompleteOrNull(h, o.from_),
               where |-> CompleteOrNull(h, o.where_),
               group_by |-> CompleteOrNull(h, o.group_by_),
               order_by |-> CompleteOrNull(h, o.order_by_),
               limit |-> CompleteOrNull(h, o.limit_),
               union_select |-> CompleteOrNull(h, o.union_select_)])

(***************************************************************************)
(* Copy.  A call gives [h, r, ub]: the heap, the address of the copy, and  *)
(* whether a null pointer was dereferenced on the way (undefined           *)
(* behaviour: then there is no result to speak of).                        *)
(***************************************************************************)
Made(n) == [h |-> n.h, r |-> n.r, ub |-> FALSE]
Undefined(h) == [h |-> h, r |-> 0, ub |-> TRUE]

RECURSIVE CopyOf(_, _)
RECURSIVE CopyIfSet(_, _)
RECURSIVE CopyDeref(_, _)
RECURSIVE CopyField(_, _, _, _)
RECURSIVE TableRef_Copy(_, _)
RECURSIVE JoinDefinition_Copy(_, _)
RECURSIVE SelectStatement_Copy(_, _)

\* x->Copy() on the object at a, by its class; TableInfo::Copy and the
\* descriptions' Copy make a new object with the same fields
CopyOf(h, a) ==
  CASE h[a].kind = "TableRef" -> TableRef_Copy(h, a)
    [] h[a].kind = "JoinDefinition" -> JoinDefinition_Copy(h, a)
    [] h[a].kind = "SelectStatement" -> SelectStatement_Copy(h, a)
    [] OTHER -> Made(New(h, h[a]))

\* x == nullptr ? nullptr : x->Copy()
CopyIfSet(h, a) == IF a = 0 THEN [h |-> h, r |-> 0, ub |-> FALSE] ELSE CopyOf(h, a)

\* x->Copy() with no test of x
CopyDeref(h, a) == IF a = 0 THEN Undefined(h) ELSE CopyOf(h, a)

\* a copy whose left side is the original's own left subtree
JoinDefinition_CopySharingLeft(h, this) ==
  LET right == CopyDeref(h, h[this].right_)
  IN IF h[this].left_ = 0 \/ right.ub THEN Undefined(h)
     ELSE Made(New(right.h, [kind |-> "JoinDefinition", type_ |-> h[this].type_,
                             left_ |-> h[this].left_, right_ |-> right.r,
                             condition_ |-> h[this].condition_]))

\* make_unique<JoinDefinition>(type_, left_->Copy(), right_->Copy(), condition_);
\* the two copies are made left first
JoinDefinition_Copy(h, this) ==
  LET left == CopyDeref(h, h[this].left_)
      right == IF left.ub THEN left ELSE CopyDeref(left.h, h[this].right_)
  IN IF right.ub THEN Undefined(h)
     ELSE Made(New(right.h, [kind |-> "JoinDefinition", type_ |-> h[this].type_,
                             left_ |-> left.r, right_ |-> right.r,
                             condition_ |-> h[this].condition_]))

\* the loop over list_, from item i on: table_ref->list_.emplace_back(item->Copy())
RECURSIVE TableRef_CopyListLoop(_, _, _, _)
TableRef_CopyListLoop(c, table_ref, list, i) ==
  IF c.ub \/ i > Len(list) THEN c
  ELSE LET item == CopyDeref(c.h, list[i])
       IN IF item.ub THEN Undefined(c.h)
          ELSE TableRef_CopyListLoop(
                 [c EXCEPT !.h = [item.h EXCEPT ![table_ref].list_ = Append(@, item.r)]],
                 table_ref, list, i + 1)

\* table_ref->fld = fld == nullptr ? nullptr : fld->Copy()
CopyField(c, this, table_ref, fld) ==
  IF c.ub THEN c
  ELSE LET x == CopyIfSet(c.h, c.h[this][fld])
       IN IF x.ub THEN Undefined(c.h)
          ELSE [c EXCEPT !.h = [x.h EXCEPT ![table_ref][fld] = x.r]]

TableRef_Copy(h, this) ==
  LET n == New(h, TableRef_Default)
      table_ref == n.r
      c0 == [h |-> [n.h EXCEPT ![table_ref].type_ = h[this].type_,
                               ![table_ref].alias_ = h[this].alias_],
             r |-> table_ref, ub |-> FALSE]
      c1 == CopyField(c0, this, table_ref, "table_info_")
      c2 == CopyField(c1, this, table_ref, "select_")
      c3 == CopyField(c2, this, table_ref, "join_")
  IN TableRef_CopyListLoop(c3, table_ref, h[this].list_, 1)

\* SelectStatement::Copy: the projection list and where stay handles to the
\* same expressions; from, group_by, order_by, limit and the unioned select
\* are copied when set
SelectStatement_Copy(h, this) ==
  LET n == New(h, [h[this] EXCEPT !.from_ = 0, !.group_by_ = 0, !.order_by_ = 0,
                                  !.limit_ = 0, !.union_select_ = 0])
      c0 == [h |-> n.h, r |-> n.r, ub |-> FALSE]
      c1 == CopyField(c0, this, n.r, "from_")
      c2 == CopyField(c1, this, n.r, "group_by_")
      c3 == CopyField(c2, this, n.r, "order_by_")
      c4 == CopyField(c3, this, n.r, "limit_")
  IN CopyField(c4, this, n.r, "union_select_")

(***************************************************************************)
(* Structural equality of two trees: same classes, same values, owned      *)
(* parts and referenced expressions equal in turn.                         *)
(***************************************************************************)
RECURSIVE StructEq(_, _, _)
StructEqSeq(h, xs, ys) ==
  Len(xs) = Len(ys) /\ \A i \in 1..Len(xs) : StructEq(h, xs[i], ys[i])
StructEq(h, a, b) ==
  IF a = 0 \/ b = 0 THEN a = b
  ELSE LET x == h[a]
           y == h[b]
       IN x.kind = y.kind /\
          CASE x.kind = "JoinDefinition" ->
                 /\ x.type_ = y.type_
                 /\ StructEq(h, x.left_, y.left_)
                 /\ StructEq(h, x.right_, y.right_)
                 /\ StructEq(h, x.condition_, y.condition_)
            [] x.kind = "TableRef" ->
                 /\ x.type_ = y.type_ /\ x.alias_ = y.alias_
                 /\ StructEq(h, x.table_info_, y.table_info_)
                 /\ StructEq(h, x.select_, y.select_)
                 /\ StructEqSeq(h, x.list_, y.list_)
                 /\ StructEq(h, x.join_, y.join_)
            [] x.kind = "SelectStatement" ->
                 /\ x.stmt_type_ = y.stmt_type_
                 /\ x.select_distinct_ = y.select_distinct_
                 /\ StructEqSeq(h, x.select_, y.select_)
                 /\ StructEq(h, x.from_, y.from_)
                 /\ StructEq(h, x.where_, y.where_)
                 /\ StructEq(h, x.group_by_, y.group_by_)
                 /\ StructEq(h, x.order_by_, y.order_by_)
                 /\ StructEq(h, x.limit_, y.limit_)
                 /\ StructEq(h, x.union_select_, y.union_select_)
            [] OTHER -> x = y

(***************************************************************************)
(* The trees the checks start from.  A shape is an object with the shapes  *)
(* of its parts in place of their addresses; NilShape is an absent part.   *)
(***************************************************************************)
MaxList == 2
MaxSelect == 1

Str_t == <<116>>
NilShape == [kind |-> "nil"]
ExprShape(name) == [kind |-> "Expr", func_name_ |-> name]
DescriptionShape(kind) == [kind |-> kind, value_ |-> Str_t]

TableRefShape(type, ti, sel, list, join) ==
  [kind |-> "TableRef", type_ |-> type, alias_ |-> Str_t,
   table_info_ |-> ti, select_ |-> sel, list_ |-> list, join_ |-> join]

TableShape ==
  TableRefShape("TABLE_NAME", [kind |-> "TableInfo", table_name_ |-> Str_t],
                NilShape, <<>>, NilShape)
EmptyRefShape == TableRefShape("INVALID", NilShape, NilShape, <<>>, NilShape)
JoinRef(j) == TableRefShape("JOIN", NilShape, NilShape, <<>>, j)
ListRef(items) == TableRefShape("CROSS_PRODUCT", NilShape, NilShape, items, NilShape)
SelectRef(sel) == TableRefShape("SELECT", NilShape, sel, <<>>, NilShape)

JoinTypes == {"INNER", "OUTER"}
Conditions == {NilShape, ExprShape(Str_min)}

JoinShapes(Lefts, Rights) ==
  { [kind |-> "JoinDefinition", type_ |-> t, left_ |-> l, right_ |-> r, condition_ |-> c] :
      t \in JoinTypes, l \in Lefts, r \in Rights, c \in Conditions }

\* selects over the given from and union parts; the three descriptions are
\* all there or all absent
SelectShapes(Froms, Unions) ==
  { [kind |-> "SelectStatement", stmt_type_ |-> "SELECT", select_ |-> sl,
     select_distinct_ |-> "false", from_ |-> f, where_ |-> w,
     group_by_ |-> IF d THEN DescriptionShape("GroupByDescription") ELSE NilShape,
     order_by_ |-> IF d THEN DescriptionShape("OrderByDescription") ELSE NilShape,
     limit_ |-> IF d THEN DescriptionShape("LimitDescription") ELSE NilShape,
     union_select_ |-> u] :
      sl \in SeqsUpTo({ExprShape(Str_count)}, MaxSelect), f \in Froms,
      w \in {NilShape, ExprShape(Str_max)}, d \in BOOLEAN, u \in Unions }

LeafRefs == {TableShape, EmptyRefShape}
Join1 == JoinShapes(LeafRefs \cup {NilShape}, LeafRefs \cup {NilShape})
Sel0 == SelectShapes({NilShape, TableShape}, {NilShape})
TableRef1 ==
  LeafRefs
    \cup { JoinRef(j) : j \in Join1 }
    \cup { ListRef(items) : items \in SeqsUpTo(LeafRefs, MaxList) \ {<<>>} }
    \cup { SelectRef(sel) : sel \in Sel0 }

\* a join one level up: its left side is itself a join, a list or a subquery
NestedRefs ==
  { JoinRef(j) : j \in JoinShapes({TableShape}, {TableShape, NilShape}) }
    \cup { ListRef(<<TableShape, TableShape>>) }
    \cup { SelectRef(sel) : sel \in { x \in Sel0 : x.from_ = TableShape /\ ~(x.where_ = NilShape) } }
Join2 == JoinShapes(NestedRefs, {TableShape})

\* a select over any table reference; a select with a unioned select
Sel1 ==
  { sel \in SelectShapes(TableRef1, {NilShape}) :
      (sel.group_by_ = NilShape) = (sel.where_ = NilShape) }
    \cup { sel \in SelectShapes({TableShape}, Sel0) :
             sel.group_by_ = NilShape /\ sel.union_select_.group_by_ = NilShape }

StmtShapes == TableRef1 \cup Join1 \cup Join2 \cup Sel0 \cup Sel1

\* the fields of a shape that hold shapes, and the one that holds a sequence
PartFields(kind) ==
  CASE kind = "TableRef" -> <<"table_info_", "select_", "join_">>
    [] kind = "JoinDefinition" -> <<"left_", "right_", "condition_">>
    [] kind = "SelectStatement" ->
         <<"from_", "where_", "group_by_", "order_by_", "limit_", "union_select_">>
    [] OTHER -> <<>>
SeqField(kind) ==
  CASE kind = "TableRef" -> <<"list_">>
    [] kind = "SelectStatement" -> <<"select_">>
    [] OTHER -> <<>>

\* the tree of a shape laid out on the heap, parts before the whole: [h, r]
RECURSIVE Build(_, _)
RECURSIVE BuildParts(_, _, _)
RECURSIVE BuildSeq(_, _, _)
BuildParts(b, flds, i) ==
  IF i > Len(flds) THEN b
  ELSE LET c == Build(b.h, b.obj[flds[i]])
       IN BuildParts([h |-> c.h, obj |-> [b.obj EXCEPT ![flds[i]] = c.r]], flds, i + 1)
BuildSeq(b, fld, i) ==
  IF i > Len(b.obj[fld]) THEN b
  ELSE LET c == Build(b.h, b.obj[fld][i])
       IN BuildSeq([h |-> c.h, obj |-> [b.obj EXCEPT ![fld][i] = c.r]], fld, i + 1)
Build(h, shape) ==
  IF shape.kind = "nil" THEN [h |-> h, r |-> 0]
  ELSE LET b0 == [h |-> h, obj |-> shape]
           b1 == BuildParts(b0, PartFields(shape.kind), 1)
           b2 == IF SeqField(shape.kind) = <<>> THEN b1
                 ELSE BuildSeq(b1, SeqField(shape.kind)[1], 1)
       IN New(b2.h, b2.obj)

(***************************************************************************)
(* A tree is built; it is serialized, or a fresh object of its class is    *)
(* filled from a document, or it, or the object just filled, is copied.    *)
(*   root  the tree built at the start                                     *)
(*   sret  what the last call was and what it gave                         *)
(***************************************************************************)
StmtInit ==
  \E shape \in StmtShapes :
    LET b == Build(<<>>, shape)
    IN heap = b.h /\ freed = {} /\ root = b.r /\ sret = [op |-> "none"]

\* nothing has been made since the tree was built
Fresh == Len(heap) = root

StmtToJson ==
  /\ sret.op = "none"
  /\ sret' = [op |-> "ToJson", this |-> root, j |-> ToJsonOf(heap, root)]
  /\ UNCHANGED <<heap, freed, root>>
  /\ UNCHANGED <<decVars, arenaVars, exprVars>>

\* the document is what ToJson gave for the tree, or a complete document of
\* it, or a complete document of it that lacks one of its fields
StmtFromJson ==
  /\ Fresh
  /\ \E source \in {"ToJson", "complete", "dropped"} :
     \E key \in IF source = "dropped" THEN JKeys(CompleteJson(heap, root)) ELSE {"none"} :
       LET j == CASE source = "ToJson" -> ToJsonOf(heap, root)
                  [] source = "complete" -> CompleteJson(heap, root)
                  [] OTHER -> JDrop(CompleteJson(heap, root), key)
           n == New(heap, DefaultOf(heap[root].kind))
           f == FromJsonOf(n.h, freed, n.r, j)
       IN /\ heap' = f.h
          /\ freed' = f.freed
          /\ sret' = [op |-> "FromJson", source |-> source, dropped |-> key,
                      this |-> n.r, exprs |-> f.exprs, err |-> f.err]
  /\ UNCHANGED root
  /\ UNCHANGED <<decVars, arenaVars, exprVars>>

StmtCopy ==
  /\ \E this \in {root} \cup (IF sret.op = "FromJson" THEN {sret.this} ELSE {}) :
       /\ this = root => Fresh
       /\ this # root => ~sret.err
       /\ LET c == CopyOf(heap, this)
          IN /\ heap' = IF c.ub THEN heap ELSE c.h
             /\ sret' = [op |-> "Copy", this |-> this, r |-> c.r, ub |-> c.ub,
                         before |-> heap]
  /\ UNCHANGED <<freed, root>>
  /\ UNCHANGED <<decVars, arenaVars, exprVars>>

(***************************************************************************)
(* Specifications                                                          *)
(***************************************************************************)
ExprIdle == eheap = <<>> /\ eroots = {} /\ eret = [op |-> "none"]
StmtIdle == heap = <<>> /\ freed = {} /\ root = 0 /\ sret = [op |-> "none"]

DecNext ==
  \/ CallCharToActionType
  \/ CallCharToMatchType
  \/ CallIsAggregateFunction

InitDecode == DecInit /\ ArenaInit /\ ExprIdle /\ StmtIdle

SpecDecode == InitDecode /\ [][DecNext]_vars

ArenaNext ==
  \/ AddStatement
  \/ AddExpression
  \/ GetStatements
  \/ GetExpressions
  \/ GetStatement
  \/ GetExpression
  \/ TakeStatementsOwnership
  \/ TakeExpressionsOwnership

InitArena == DecInit /\ ArenaInit /\ ExprIdle /\ StmtIdle

SpecArena == InitArena /\ [][ArenaNext]_vars

ExprNext ==
  \/ ExprCopy
  \/ ExprDeriveExpressionName
  \/ ExprToJson
  \/ ExprFromJson

InitExpr == DecInit /\ ArenaInit /\ ExprInit /\ StmtIdle

SpecExpr == InitExpr /\ [][ExprNext]_vars

StmtNext == StmtToJson \/ StmtFromJson \/ StmtCopy
InitStmt == DecInit /\ ArenaInit /\ ExprIdle /\ StmtInit
SpecStmt == InitStmt /\ [][StmtNext]_vars

(***************************************************************************)
(* C1: for every SelectStatement, TableRef and JoinDefinition T, with any  *)
(* combination of optional parts present or absent, FromJson(ToJson(T))    *)
(* completes without error and yields a node structurally equal to T.      *)
(***************************************************************************)
C1_RoundTrip ==
  (sret.op = "FromJson" /\ sret.source = "ToJson") =>
    (~sret.err /\ StructEq(heap, root, sret.this))

(***************************************************************************)
(* C2: after a FromJson that completed, every non-owning expression handle *)
(* reachable in the reconstructed tree, at any nesting depth, refers to an *)
(* expression that is in the list returned to the caller and that has not  *)
(* been destroyed.                                                         *)
(***************************************************************************)
C2_ReturnsEveryHandle ==
  (sret.op = "FromJson" /\ ~sret.err) =>
    \A e \in ReachableHandles(heap, sret.this) :
      e \in Elems(sret.exprs) /\ e \notin freed

(***************************************************************************)
(* C3, as stated: JoinDefinition::Copy gives a JoinDefinition of the same  *)
(* join type whose left and right subtrees are fresh deep copies and whose *)
(* condition handle is re-pointed at an expression belonging to the copy,  *)
(* not at the expression the original refers to.  It is stated here for    *)
(* the calls that dereference no null pointer.                             *)
(***************************************************************************)
CopiedJoin == sret.op = "Copy" /\ sret.before[sret.this].kind = "JoinDefinition"

\* the addresses that were in use before the last call
Before == 1..Len(sret.before)

HasUnsetSide(h, a) ==
  \E n \in OwnedNodes(h, a) :
    h[n].kind = "JoinDefinition" /\ (h[n].left_ = 0 \/ h[n].right_ = 0)

C11_ErrorsAtomic ==
  (sret.op = "FromJson" /\ sret.err) =>
    /\ heap[sret.this] = DefaultOf(heap[sret.this].kind)
    /\ ReachableHandles(heap, sret.this) \cap freed = {}

(***************************************************************************)
(* C12: for every TableRef R in which exactly one of table_info, select,   *)
(* list and join is populated, R.Copy() has R's type and alias and the     *)
(* same one part populated, that part is a deep copy sharing no owned node *)
(* with R (list elements pairwise, in order), and R is unchanged.          *)
(***************************************************************************)
CopiedTableRef == sret.op = "Copy" /\ sret.before[sret.this].kind = "TableRef"

\* which of the four parts of a TableRef are populated
Populated(ref) ==
  { fld \in {"table_info_", "select_", "join_"} : ref[fld] # 0 }
    \cup (IF ref.list_ # <<>> THEN {"list_"} ELSE {})

C12_VariantPreserved ==
  (CopiedTableRef /\ Cardinality(Populated(sret.before[sret.this])) = 1) =>
    /\ ~sret.ub
    /\ SubSeq(heap, 1, Len(sret.before)) = sret.before
    /\ heap[sret.r].type_ = heap[sret.this].type_
    /\ heap[sret.r].alias_ = heap[sret.this].alias_
    /\ Populated(heap[sret.r]) = Populated(heap[sret.this])
    /\ OwnedNodes(heap, sret.r) \cap Before = {}
    /\ StructEq(heap, sret.r, sret.this)

(***************************************************************************)
(* C13: Copy on a JoinDefinition that FromJson produced, called on it or   *)
(* reached through TableRef::Copy on the TableRef that holds it, completes *)
(* and gives a copy with the same sides unset: it dereferences no missing  *)
(* subtree.                                                                *)
(***************************************************************************)
\* the JoinDefinition at a, or held by the TableRef at a; 0 when there is none
JoinOf(h, a) ==
  CASE h[a].kind = "JoinDefinition" -> a
    [] h[a].kind = "TableRef" -> h[a].join_
    [] OTHER -> 0

C13_CopyDefinedOnUnsetSides ==
  (sret.op = "Copy" /\ sret.this # root /\ JoinOf(sret.before, sret.this) # 0) =>
    /\ ~sret.ub
    /\ LET orig == heap[JoinOf(heap, sret.this)]
           copy == heap[JoinOf(heap, sret.r)]
       IN /\ (copy.left_ = 0) = (orig.left_ = 0)
          /\ (copy.right_ = 0) = (orig.right_ = 0)

(***************************************************************************)
(* C4: after TakeStatementsOwnership() (resp. TakeExpressionsOwnership())  *)
(* returns, the caller owns the whole sequence, in insertion order, the    *)
(* ParseResult owns none of its elements, and the other sequence is as it  *)
(* was before the call.                                                    *)
(***************************************************************************)
C4_TakeTransfersOwnership ==
  /\ arenaRet.op = "TakeStatementsOwnership" =>
       /\ callerStatements = arenaRet.before[1]
       /\ Elems(statements_) \cap Elems(arenaRet.before[1]) = {}
       /\ expressions_ = arenaRet.before[2]
  /\ arenaRet.op = "TakeExpressionsOwnership" =>
       /\ callerExpressions = arenaRet.before[2]
       /\ Elems(expressions_) \cap Elems(arenaRet.before[2]) = {}
       /\ statements_ = arenaRet.before[1]

(***************************************************************************)
(* C5 (as claimed): with no take, the owned lists are the added nodes in   *)
(* call order, GetStatement(i)/GetExpression(i) designate the i-th added   *)
(* node, GetStatements()/GetExpressions() return handles to all of them in *)
(* that order, and each add hands back a handle to the node just added.    *)
(***************************************************************************)
C5_ListsInCallOrder ==
  takeCalls = {} =>
    /\ statements_ = addedStatements
    /\ expressions_ = addedExpressions
    /\ arenaRet.op = "GetStatement" /\ arenaRet.idx < Len(addedStatements)
         => arenaRet.ret = RetHandle(addedStatements[arenaRet.idx + 1])
    /\ arenaRet.op = "GetExpression" /\ arenaRet.idx < Len(addedExpressions)
         => arenaRet.ret = RetHandle(addedExpressions[arenaRet.idx + 1])
    /\ arenaRet.op = "GetStatements" => arenaRet.ret = RetHandles(addedStatements)
    /\ arenaRet.op = "GetExpressions" => arenaRet.ret = RetHandles(addedExpressions)

C5_AddHandsBackHandle ==
  /\ C5_ListsInCallOrder
  /\ takeCalls = {} /\ arenaRet.op = "AddStatement"
       => arenaRet.ret = RetHandle(addedStatements[Len(addedStatements)])
  /\ takeCalls = {} /\ arenaRet.op = "AddExpression"
       => arenaRet.ret = RetHandle(addedExpressions[Len(addedExpressions)])

(***************************************************************************)
(* C5 (amended): with no take, the owned lists are the added nodes in call *)
(* order, GetStatement(i)/GetExpression(i) designate the i-th added node,  *)
(* GetStatements()/GetExpressions() return handles to all of them in that  *)
(* order, no accessor changes either owned list, and an add returns        *)
(* nothing: the node just added is the last element of its list, and its   *)
(* handle comes from the accessors.                                        *)
(***************************************************************************)
ArenaAccessors == {"GetStatement", "GetExpression", "GetStatements", "GetExpressions"}

C5_AddReturnsNothing ==
  /\ arenaRet.op \in {"AddStatement", "AddExpression"} => arenaRet.ret = RetVoid
  /\ takeCalls = {} /\ arenaRet.op = "AddStatement"
       => statements_[Len(statements_)] = addedStatements[Len(addedStatements)]
  /\ takeCalls = {} /\ arenaRet.op = "AddExpression"
       => expressions_[Len(expressions_)] = addedExpressions[Len(addedExpressions)]

C5_InsertionOrder ==
  /\ [](C5_ListsInCallOrder /\ C5_AddReturnsNothing)
  /\ [][arenaRet'.op \in ArenaAccessors =>
          statements_' = statements_ /\ expressions_' = expressions_]_vars

\* two statements and an expression were added, no take was called, and
\* GetStatement(1) returned the handle of the second statement added
C5_Witness ==
  /\ takeCalls = {}
  /\ Len(addedStatements) = 2
  /\ Len(addedExpressions) = 1
  /\ arenaRet.op = "GetStatement"
  /\ arenaRet.idx = 1
  /\ arenaRet.ret = RetHandle(addedStatements[2])

(***************************************************************************)
(* C8: for a function expression E with any number of children, E.Copy()   *)
(* returns E2 with E == E2 (same function name, return type and pairwise   *)
(* equal children in order); E2 and all its descendants are freshly        *)
(* allocated nodes, none of them a node of E; E is unchanged by the copy.  *)
(***************************************************************************)
\* no node is reached twice below a: the expression is a tree
RECURSIVE SumSeq(_)
SumSeq(ns) == IF ns = <<>> THEN 0 ELSE Head(ns) + SumSeq(Tail(ns))

RECURSIVE ExprNodeCount(_, _)
ExprNodeCount(h, a) ==
  1 + SumSeq([i \in 1..Len(h[a].children_) |-> ExprNodeCount(h, h[a].children_[i])])

C8_CopyIndependence ==
  eret.op = "Copy" =>
    LET E == eret.this
        E2 == eret.r
        old == 1..Len(eret.before)
    IN /\ FunctionExpression_Eq(eheap, E, E2)
       /\ eheap[E2].func_name_ = eheap[E].func_name_
       /\ eheap[E2].return_value_type = eheap[E].return_value_type
       /\ Len(eheap[E2].children_) = Len(eheap[E].children_)
       /\ ExprNodes(eheap, E2) \cap old = {}
       /\ ExprNodes(eheap, E2) \cap ExprNodes(eheap, E) = {}
       /\ Cardinality(ExprNodes(eheap, E2)) = ExprNodeCount(eheap, E2)
       /\ \A a \in old : eheap[a] = eret.before[a]

\* an expression with two children was copied
C8_Witness ==
  /\ eret.op = "Copy"
  /\ Len(eheap[eret.this].children_) = 2
  /\ Len(eheap[eret.r].children_) = 2
  /\ eheap[eret.r].children_[1] # eheap[eret.this].children_[1]

(***************************************************************************)
(* C9: for all function expressions E1, E2, if E1 == E2 then               *)
(* E1.Hash() = E2.Hash().                                                  *)
(***************************************************************************)
C9_HashEqConsistent ==
  \A E1, E2 \in 1..Len(eheap) :
    FunctionExpression_Eq(eheap, E1, E2) =>
      FunctionExpression_Hash(eheap, E1) = FunctionExpression_Hash(eheap, E2)

\* two distinct expression objects with children are equal although their
\* cached display names differ, and a third has a different hash
C9_Witness ==
  \E E1, E2 \in eroots : \E E3 \in 1..Len(eheap) :
    /\ E1 # E2
    /\ Len(eheap[E1].children_) > 0
    /\ FunctionExpression_Eq(eheap, E1, E2)
    /\ eheap[E1].expression_name_ # eheap[E2].expression_name_
    /\ ~FunctionExpression_Eq(eheap, E1, E3)
    /\ FunctionExpression_Hash(eheap, E1) # FunctionExpression_Hash(eheap, E3)

(***************************************************************************)
(* C10: ToJson(E) holds the field func_name with E's function name beside  *)
(* the base expression fields; FromJson on that document reconstructs an   *)
(* expression whose function name is E's; FromJson on a document lacking   *)
(* func_name fails with an error.                                          *)
(***************************************************************************)
C10_FuncNameRoundTrip ==
  /\ eret.op = "ToJson" =>
       /\ JGets(eret.j, "func_name", "str")
       /\ JAt(eret.j, "func_name").s = eheap[eret.this].func_name_
       /\ JKeys(AbstractExpression_ToJson(eheap, eret.this)) \subseteq JKeys(eret.j)
       /\ \A k \in JKeys(AbstractExpression_ToJson(eheap, eret.this)) :
            JAt(eret.j, k) = JAt(AbstractExpression_ToJson(eheap, eret.this), k)
  /\ eret.op = "FromJson" /\ eret.dropped = "none" =>
       /\ ~eret.err
       /\ eheap[eret.this].func_name_ = eheap[eret.from].func_name_
       /\ FunctionExpression_Eq(eheap, eret.this, eret.from)
  /\ eret.op = "FromJson" /\ eret.dropped = "func_name" => eret.err

\* a document lacking func_name was refused, and in another state the
\* document of an expression with children was read back
C10_WitnessRefused ==
  /\ eret.op = "FromJson"
  /\ eret.dropped = "func_name"
  /\ eret.err

C10_Witness ==
  /\ eret.op = "FromJson"
  /\ eret.dropped = "none"
  /\ ~eret.err
  /\ Len(eheap[eret.from].children_) > 0
  /\ eheap[eret.this].func_name_ = Str_upper

(***************************************************************************)
(* C6: IsAggregateFunction returns true for a function name iff the        *)
(* lower-cased name is one of min, max, count, avg, sum (so Count and SUM  *)
(* classify as aggregate).                                                  *)
(***************************************************************************)
AggregateNames == {Str_min, Str_max, Str_count, Str_avg, Str_sum}

C6_CaseInsensitive ==
  dec.fn = "IsAggregateFunction" =>
    (dec.ret = "true") = (LowerCased(dec.arg) \in AggregateNames)

(***************************************************************************)
(* C7: CharToActionType maps a, r, c, n, d to no-action, restrict,         *)
(* cascade, set-null, set-default and every other character to no-action;  *)
(* CharToMatchType maps f, p, s to full, partial, simple and every other   *)
(* character to simple; both are total (some value is always returned).    *)
(***************************************************************************)
C7_FkDecoding ==
  /\ dec.fn = "CharToActionType" =>
       LET c == dec.arg[1] IN
       /\ dec.ret \in {"NOACTION", "RESTRICT_", "CASCADE", "SETNULL", "SETDEFAULT"}
       /\ (c = 97) => dec.ret = "NOACTION"
       /\ (c = 114) => dec.ret = "RESTRICT_"
       /\ (c = 99) => dec.ret = "CASCADE"
       /\ (c = 110) => dec.ret = "SETNULL"
       /\ (c = 100) => dec.ret = "SETDEFAULT"
       /\ (c \notin {97, 114, 99, 110, 100}) => dec.ret = "NOACTION"
  /\ dec.fn = "CharToMatchType" =>
       LET c == dec.arg[1] IN
       /\ dec.ret \in {"FULL", "PARTIAL", "SIMPLE"}
       /\ (c = 102) => dec.ret = "FULL"
       /\ (c = 112) => dec.ret = "PARTIAL"
       /\ (c = 115) => dec.ret = "SIMPLE"
       /\ (c \notin {102, 112, 115}) => dec.ret = "SIMPLE"

\* an unrecognized action code (here 'x') was decoded, to no-action
C7_Witness ==
  dec.fn = "CharToActionType" /\ dec.arg[1] = 120 /\ dec.ret = "NOACTION"

====
